---- MODULE Spec2Model ----
(***************************************************************************)
(* A model of the RPC client layer of eth_data_extractor (src/src/rpc.rs): *)
(* the response decoder (parse_block, parse_transaction), the cache, the   *)
(* retry policy and the query operations built on them.                    *)
(*                                                                         *)
(* Text is modelled as sequences of one-character strings, so that the     *)
(* parsers are computed character by character as the code computes them.  *)
(* Unsigned integers (U256, u64) are big-endian sequences of hexadecimal   *)
(* digit values without leading zeros (zero is the empty sequence), so     *)
(* that the 256-bit and 64-bit widths are the real ones.                   *)
(***************************************************************************)
EXTENDS Integers, Sequences, FiniteSets, TLC

\* ------------------------------------------------------------------ text

\* The string made of n copies of the character c.
Rep(c, n) == [i \in 1..n |-> c]

DecChars == {"0", "1", "2", "3", "4", "5", "6", "7", "8", "9"}
LowerHexChars == {"a", "b", "c", "d", "e", "f"}
UpperHexChars == {"A", "B", "C", "D", "E", "F"}
HexChars == DecChars \cup LowerHexChars \cup UpperHexChars

\* The value of one hexadecimal digit character, either case.
HexVal(c) ==
    CASE c = "0" -> 0 [] c = "1" -> 1 [] c = "2" -> 2 [] c = "3" -> 3
      [] c = "4" -> 4 [] c = "5" -> 5 [] c = "6" -> 6 [] c = "7" -> 7
      [] c = "8" -> 8 [] c = "9" -> 9
      [] c \in {"a", "A"} -> 10 [] c \in {"b", "B"} -> 11
      [] c \in {"c", "C"} -> 12 [] c \in {"d", "D"} -> 13
      [] c \in {"e", "E"} -> 14 [] c \in {"f", "F"} -> 15

\* Result values: Ok(v) and Err(e).
Ok(v) == [ok |-> TRUE, v |-> v]
Err(e) == [ok |-> FALSE, e |-> e]

\* str::trim_start_matches("0x"): removes the prefix repeatedly.
RECURSIVE TrimStartMatches0x(_)
TrimStartMatches0x(s) ==
    IF Len(s) >= 2 /\ s[1] = "0" /\ s[2] = "x"
    THEN TrimStartMatches0x(SubSeq(s, 3, Len(s)))
    ELSE s

\* A digit sequence without its leading zeros.
RECURSIVE StripLeadingZeros(_)
StripLeadingZeros(ds) ==
    IF ds # <<>> /\ Head(ds) = 0 THEN StripLeadingZeros(Tail(ds)) ELSE ds

\* The widths of the integer types, in hexadecimal digits.
U256Digits == 64
U64Digits == 16

\* U256::from_str_radix(s, 16): the underscore is skipped, every other
\* character must be a hexadecimal digit, the value must fit 256 bits; the
\* empty string is zero.
U256FromStrRadix16(s) ==
    LET kept == SelectSeq(s, LAMBDA c : c # "_") IN
    IF \E i \in 1..Len(kept) : kept[i] \notin HexChars
    THEN Err("InvalidDigit")
    ELSE LET v == StripLeadingZeros([i \in 1..Len(kept) |-> HexVal(kept[i])]) IN
         IF Len(v) > U256Digits THEN Err("Overflow") ELSE Ok(v)

\* The lengths of a 32-byte digest and of a 20-byte address, in bytes.
B256Bytes == 32
AddressBytes == 20

\* <FixedBytes<N> as FromStr>::from_str: one optional "0x" prefix, then
\* exactly 2N hexadecimal digits.
FixedBytesFromStr(s, n) ==
    LET body == IF Len(s) >= 2 /\ s[1] = "0" /\ s[2] = "x"
                THEN SubSeq(s, 3, Len(s)) ELSE s IN
    IF Len(body) % 2 # 0 THEN Err("OddLength")
    ELSE IF Len(body) # 2 * n THEN Err("InvalidStringLength")
    ELSE IF \E i \in 1..Len(body) : body[i] \notin HexChars
    THEN Err("InvalidHexCharacter")
    ELSE Ok([i \in 1..Len(body) |-> HexVal(body[i])])

\* ------------------------------------------------------------------ JSON

\* A JSON value, and a member of a JSON object: absent, a string, an array,
\* an object, null, or another value (a number, a boolean).
JAbsent == [t |-> "absent"]
JOther == [t |-> "other"]
JStr(s) == [t |-> "str", s |-> s]
JArr(a) == [t |-> "arr", a |-> a]
\* A JSON object: its members by key (JAbsent for a key it does not hold).
JObj(f) == [t |-> "obj", f |-> f]
JNull == [t |-> "null"]

\* serde_json::Value::as_object / as_str / as_array / get.
AsObject(v) == IF v.t = "obj" THEN Ok(v.f) ELSE Err("None")
AsStr(v) == IF v.t = "str" THEN Ok(v.s) ELSE Err("None")
AsArray(v) == IF v.t = "arr" THEN Ok(v.a) ELSE Err("None")
Get(obj, key) == IF key \in DOMAIN obj THEN obj[key] ELSE JAbsent

\* obj.get(key).and_then(|v| v.as_str()).unwrap_or(default)
StrOr(obj, key, default) ==
    LET s == AsStr(Get(obj, key)) IN IF s.ok THEN s.v ELSE default

Str0x0 == <<"0", "x", "0">>
ZeroAddressStr == <<"0", "x">> \o Rep("0", 2 * AddressBytes)

\* NumField without the default: a missing member is an error.
NumFieldStrict(obj, key) ==
    LET s == AsStr(Get(obj, key)) IN
    IF s.ok THEN U256FromStrRadix16(TrimStartMatches0x(s.v)) ELSE Err("missing")

\* U256::from_str_radix(obj.get(key)...unwrap_or("0x0").trim_start_matches("0x"), 16)
NumField(obj, key) == U256FromStrRadix16(TrimStartMatches0x(StrOr(obj, key, Str0x0)))
\* obj.get(key)...unwrap_or("0x0").parse::<B256>()
HashField(obj, key) == FixedBytesFromStr(StrOr(obj, key, Str0x0), B256Bytes)
\* obj.get(key)...unwrap_or("0x0000000000000000000000000000000000000000").parse::<Address>()
AddressField(obj, key) == FixedBytesFromStr(StrOr(obj, key, ZeroAddressStr), AddressBytes)

\* One entry of the transactions array: a bare hash string, or an object
\* with a hash member; an entry that yields no digest is dropped.
\* TxEntryHash reading bare hash strings alone.
TxEntryHashStringsOnly(tx) ==
    IF tx.t = "str" THEN FixedBytesFromStr(tx.s, B256Bytes) ELSE Err("None")

TxEntryHash(tx) ==
    IF tx.t = "str" THEN FixedBytesFromStr(tx.s, B256Bytes)
    ELSE IF tx.t = "obj"
    THEN LET h == AsStr(Get(tx.f, "hash")) IN
         IF h.ok THEN FixedBytesFromStr(h.v, B256Bytes) ELSE Err("None")
    ELSE Err("None")

RECURSIVE FilterMapTx(_)
FilterMapTx(arr) ==
    IF arr = <<>> THEN <<>>
    ELSE LET h == TxEntryHash(Head(arr)) IN
         (IF h.ok THEN <<h.v>> ELSE <<>>) \o FilterMapTx(Tail(arr))

TransactionsField(obj) ==
    LET a == AsArray(Get(obj, "transactions")) IN
    IF a.ok THEN FilterMapTx(a.v) ELSE <<>>

\* RethClient::parse_block
parse_block(value) ==
    LET o == AsObject(value) IN
    IF ~o.ok THEN Err("Invalid block format")
    ELSE LET obj == o.v
             number == NumField(obj, "number")
             hash == HashField(obj, "hash")
             parent_hash == HashField(obj, "parentHash")
             timestamp == NumField(obj, "timestamp")
             gas_used == NumField(obj, "gasUsed")
             gas_limit == NumField(obj, "gasLimit")
             miner == AddressField(obj, "miner")
             difficulty == NumField(obj, "difficulty")
             size == NumField(obj, "size")
         IN
         IF number.ok /\ hash.ok /\ parent_hash.ok /\ timestamp.ok /\ gas_used.ok
            /\ gas_limit.ok /\ miner.ok /\ difficulty.ok /\ size.ok
         THEN Ok([number |-> number.v, hash |-> hash.v, parent_hash |-> parent_hash.v,
                  timestamp |-> timestamp.v, gas_used |-> gas_used.v,
                  gas_limit |-> gas_limit.v, transactions |-> TransactionsField(obj),
                  miner |-> miner.v, difficulty |-> difficulty.v, size |-> size.v])
         ELSE Err("field")

\* Option values: Some(v) and None.
Some(v) == [some |-> TRUE, v |-> v]
None == [some |-> FALSE]

\* obj.get(key).and_then(|v| v.as_str()).map(|s| U256::from_str_radix(
\*     s.trim_start_matches("0x"), 16).ok()).flatten()
OptNumField(obj, key) ==
    LET s == AsStr(Get(obj, key)) IN
    IF ~s.ok THEN None
    ELSE LET r == U256FromStrRadix16(TrimStartMatches0x(s.v)) IN
         IF r.ok THEN Some(r.v) ELSE None

\* obj.get(key).and_then(|v| v.as_str()).map(|s| s.parse().ok()).flatten()
OptAddressField(obj, key) ==
    LET s == AsStr(Get(obj, key)) IN
    IF ~s.ok THEN None
    ELSE LET r == FixedBytesFromStr(s.v, AddressBytes) IN
         IF r.ok THEN Some(r.v) ELSE None

\* RethClient::parse_transaction
parse_transaction(tx_value, receipt_value) ==
    LET t == AsObject(tx_value)
        r == AsObject(receipt_value) IN
    IF ~t.ok THEN Err("Invalid transaction format")
    ELSE IF ~r.ok THEN Err("Invalid receipt format")
    ELSE LET tx_obj == t.v
             receipt_obj == r.v
             hash == HashField(tx_obj, "hash")
             from == AddressField(tx_obj, "from")
             value == NumField(tx_obj, "value")
             gas == NumField(tx_obj, "gas")
             gas_price == NumField(tx_obj, "gasPrice")
         IN
         IF hash.ok /\ from.ok /\ value.ok /\ gas.ok /\ gas_price.ok
         THEN Ok([hash |-> hash.v,
                  block_number |-> OptNumField(tx_obj, "blockNumber"),
                  from |-> from.v,
                  to |-> OptAddressField(tx_obj, "to"),
                  value |-> value.v, gas |-> gas.v, gas_price |-> gas_price.v,
                  gas_used |-> OptNumField(receipt_obj, "gasUsed"),
                  status |-> OptNumField(receipt_obj, "status")])
         ELSE Err("field")

\* ------------------------------------------------------- decoder inputs

HashA == <<"0", "x">> \o Rep("a", 2 * B256Bytes)
\* A digest written in upper case and without the prefix.
HashB == Rep("B", 2 * B256Bytes)
HashC == <<"0", "x">> \o Rep("3", 2 * B256Bytes)
AddrM == <<"0", "x">> \o Rep("c", 2 * AddressBytes)
AddrT == <<"0", "x">> \o Rep("D", 2 * AddressBytes)
\* Strings that are no digest, no address and no number.
ShortHex == <<"0", "x", "1", "2">>
NotHex == <<"0", "x", "z", "z">>

Hex1 == <<"0", "x", "1">>
\* 21000
Hex5208 == <<"0", "x", "5", "2", "0", "8">>
\* 30,000,000
Hex1c9c380 == <<"0", "x", "1", "c", "9", "c", "3", "8", "0">>

\* A block as a node answers eth_getBlockByNumber(_, true): camelCase keys,
\* the transactions given in both shapes.
WireBlock(number, gasUsed) ==
    [number |-> JStr(number), hash |-> JStr(HashA), parentHash |-> JStr(HashB),
     timestamp |-> JStr(Hex5208), gasUsed |-> JStr(gasUsed),
     gasLimit |-> JStr(Hex1c9c380),
     transactions |-> JArr(<<JStr(HashC), JObj([hash |-> JStr(HashB)])>>),
     miner |-> JStr(AddrM), difficulty |-> JStr(Hex1), size |-> JStr(Hex5208)]

\* A transaction and its receipt as a node answers eth_getTransactionByHash
\* and eth_getTransactionReceipt.
WireTx ==
    [hash |-> JStr(HashC), blockNumber |-> JStr(Hex1), from |-> JStr(AddrM),
     to |-> JStr(AddrT), value |-> JStr(Hex5208), gas |-> JStr(Hex5208),
     gasPrice |-> JStr(Hex1c9c380)]
WireReceipt == [gasUsed |-> JStr(Hex5208), status |-> JStr(Hex1)]

NumKeys == {"number", "timestamp", "gasUsed", "gasLimit", "difficulty", "size",
            "value", "gas", "gasPrice", "blockNumber", "status"}
HashKeys == {"hash", "parentHash"}
AddrKeys == {"miner", "from", "to"}

\* The ways one member of an object can depart from the wire format: it is
\* missing, it is no string, or it is a string of the wrong content.
Defects(key) ==
    {JAbsent, JOther}
    \cup (IF key \in NumKeys THEN {JStr(NotHex)} ELSE {})
    \cup (IF key \in HashKeys \cup AddrKeys THEN {JStr(ShortHex)} ELSE {})
    \cup (IF key = "transactions"
          THEN {JArr(<<JOther, JStr(ShortHex), JObj([hash |-> JOther]), JStr(HashA)>>)}
          ELSE {})

\* How many members of a decoder input depart from the wire format.
MaxDefects == 2

\* The objects that differ from obj in at most k members.
RECURSIVE WithDefects(_, _)
WithDefects(obj, k) ==
    IF k = 0 THEN {obj}
    ELSE LET less == WithDefects(obj, k - 1) IN
         less \cup UNION {{[o EXCEPT ![key] = d] : d \in Defects(key)} :
                          o \in less, key \in DOMAIN obj}

\* The keys of obj whose member is not the one of the wire-format object.
DefectKeys(obj, wire) == {key \in DOMAIN wire : obj[key] # wire[key]}

\* The decoder's inputs: a block response, or a transaction response with
\* its receipt response; a response is an object or JSON null.
DecodeInputs ==
    {[kind |-> "block", value |-> v] :
        v \in {JNull} \cup {JObj(o) : o \in WithDefects(WireBlock(Hex1, Hex5208), MaxDefects)}}
    \cup UNION {
        {[kind |-> "tx", value |-> tv, receipt |-> rv] :
            tv \in {JNull} \cup {JObj(o) : o \in WithDefects(WireTx, k)},
            rv \in {JNull} \cup {JObj(o) : o \in WithDefects(WireReceipt, MaxDefects - k)}} :
        k \in 0..MaxDefects}

\* ------------------------------------------------------------ integers

\* Unsigned integers are big-endian sequences of hexadecimal digit values
\* without leading zeros; NatOf and IntOf convert the small ones.
RECURSIVE NatOf(_)
NatOf(n) == IF n = 0 THEN <<>> ELSE NatOf(n \div 16) \o <<n % 16>>

RECURSIVE IntOf(_)
IntOf(ds) == IF ds = <<>> THEN 0 ELSE 16 * IntOf(SubSeq(ds, 1, Len(ds) - 1)) + ds[Len(ds)]

NatLess(a, b) ==
    \/ Len(a) < Len(b)
    \/ /\ Len(a) = Len(b)
       /\ \E i \in 1..Len(a) : a[i] < b[i] /\ \A j \in 1..(i - 1) : a[j] = b[j]
NatMax(a, b) == IF NatLess(a, b) THEN b ELSE a
NatMin(a, b) == IF NatLess(b, a) THEN b ELSE a

PadTo(a, n) == Rep(0, n - Len(a)) \o a

\* The digits 1..i of a + b + carry, a and b of one length.
RECURSIVE AddFrom(_, _, _, _)
AddFrom(a, b, i, carry) ==
    IF i = 0 THEN (IF carry = 0 THEN <<>> ELSE <<carry>>)
    ELSE LET s == a[i] + b[i] + carry IN
         AddFrom(a, b, i - 1, s \div 16) \o <<s % 16>>

NatAdd(a, b) ==
    LET n == IF Len(a) > Len(b) THEN Len(a) ELSE Len(b) IN
    StripLeadingZeros(AddFrom(PadTo(a, n), PadTo(b, n), n, 0))

\* The quotient digits of (rem, a[i..]) by the small divisor k.
RECURSIVE DivFrom(_, _, _, _)
DivFrom(a, i, rem, k) ==
    IF i > Len(a) THEN <<>>
    ELSE LET cur == rem * 16 + a[i] IN
         <<cur \div k>> \o DivFrom(a, i + 1, cur % k, k)

\* a / k, the integer quotient, for a small k > 0.
NatDiv(a, k) == StripLeadingZeros(DivFrom(a, 1, 0, k))

FitsU64(a) == Len(a) <= U64Digits
\* The value modulo 2^64.
WrapU64(a) ==
    IF FitsU64(a) THEN a
    ELSE StripLeadingZeros(SubSeq(a, Len(a) - U64Digits + 1, Len(a)))
\* u64::MAX
U64Max == Rep(15, U64Digits)

DigitChar(d) ==
    CASE d = 0 -> "0" [] d = 1 -> "1" [] d = 2 -> "2" [] d = 3 -> "3"
      [] d = 4 -> "4" [] d = 5 -> "5" [] d = 6 -> "6" [] d = 7 -> "7"
      [] d = 8 -> "8" [] d = 9 -> "9" [] d = 10 -> "a" [] d = 11 -> "b"
      [] d = 12 -> "c" [] d = 13 -> "d" [] d = 14 -> "e" [] d = 15 -> "f"

\* format!("{:x}", n) and format!("{}", n) of a u64.
LowerHex(n) ==
    IF n = 0 THEN <<"0">> ELSE LET ds == NatOf(n) IN [i \in 1..Len(ds) |-> DigitChar(ds[i])]
RECURSIVE DecimalDigits(_)
DecimalDigits(n) == IF n = 0 THEN <<>> ELSE DecimalDigits(n \div 10) \o <<DigitChar(n % 10)>>
Decimal(n) == IF n = 0 THEN <<"0">> ELSE DecimalDigits(n)

\* u64::from_str_radix(s, 16): an optional "+", then at least one
\* hexadecimal digit, the value within 64 bits.
U64FromStrRadix16(s) ==
    LET body == IF s # <<>> /\ s[1] = "+" THEN Tail(s) ELSE s IN
    IF body = <<>> THEN Err("Empty")
    ELSE IF \E i \in 1..Len(body) : body[i] \notin HexChars THEN Err("InvalidDigit")
    ELSE LET v == StripLeadingZeros([i \in 1..Len(body) |-> HexVal(body[i])]) IN
         IF FitsU64(v) THEN Ok(v) ELSE Err("PosOverflow")

\* ------------------------------------------------- serde (cache reads)

\* The digits 1..i of a * k + carry, for a small k.
RECURSIVE MulAddFrom(_, _, _, _)
MulAddFrom(a, i, k, carry) ==
    IF i = 0 THEN (IF carry = 0 THEN <<>> ELSE NatOf(carry))
    ELSE LET s == a[i] * k + carry IN
         MulAddFrom(a, i - 1, k, s \div 16) \o <<s % 16>>

\* U256::from_str_radix(s, 10)
RECURSIVE DecimalFrom(_, _, _)
DecimalFrom(s, i, acc) ==
    IF i > Len(s) THEN acc
    ELSE DecimalFrom(s, i + 1, MulAddFrom(acc, Len(acc), 10, HexVal(s[i])))

U256FromStrRadix10(s) ==
    LET kept == SelectSeq(s, LAMBDA c : c # "_") IN
    IF \E i \in 1..Len(kept) : kept[i] \notin DecChars
    THEN Err("InvalidDigit")
    ELSE LET v == StripLeadingZeros(DecimalFrom(kept, 1, <<>>)) IN
         IF Len(v) > U256Digits THEN Err("Overflow") ELSE Ok(v)

\* <U256 as Deserialize>::deserialize of a JSON member: a string, in
\* hexadecimal after "0x" and in decimal without a prefix.
SerdeU256(v) ==
    IF v.t # "str" THEN Err("invalid type")
    ELSE IF Len(v.s) >= 2 /\ v.s[1] = "0" /\ v.s[2] \in {"x", "X"}
    THEN U256FromStrRadix16(SubSeq(v.s, 3, Len(v.s)))
    ELSE U256FromStrRadix10(v.s)

\* <FixedBytes<N> as Deserialize>::deserialize of a JSON member.
SerdeFixedBytes(v, n) ==
    IF v.t # "str" THEN Err("invalid type") ELSE FixedBytesFromStr(v.s, n)

\* <Vec<B256> as Deserialize>::deserialize: an array of digest strings.
SerdeHashes(v) ==
    IF v.t # "arr" THEN Err("invalid type")
    ELSE IF \E i \in 1..Len(v.a) : ~SerdeFixedBytes(v.a[i], B256Bytes).ok
    THEN Err("invalid element")
    ELSE Ok([i \in 1..Len(v.a) |-> SerdeFixedBytes(v.a[i], B256Bytes).v])

\* serde_json::from_value::<Block>: the derived Deserialize reads the
\* members named as the struct's fields are, and every one is required.
from_value_Block(value) ==
    LET o == AsObject(value) IN
    IF ~o.ok THEN Err("invalid type")
    ELSE LET obj == o.v
             number == SerdeU256(Get(obj, "number"))
             hash == SerdeFixedBytes(Get(obj, "hash"), B256Bytes)
             parent_hash == SerdeFixedBytes(Get(obj, "parent_hash"), B256Bytes)
             timestamp == SerdeU256(Get(obj, "timestamp"))
             gas_used == SerdeU256(Get(obj, "gas_used"))
             gas_limit == SerdeU256(Get(obj, "gas_limit"))
             transactions == SerdeHashes(Get(obj, "transactions"))
             miner == SerdeFixedBytes(Get(obj, "miner"), AddressBytes)
             difficulty == SerdeU256(Get(obj, "difficulty"))
             size == SerdeU256(Get(obj, "size"))
         IN
         IF number.ok /\ hash.ok /\ parent_hash.ok /\ timestamp.ok /\ gas_used.ok
            /\ gas_limit.ok /\ transactions.ok /\ miner.ok /\ difficulty.ok /\ size.ok
         THEN Ok([number |-> number.v, hash |-> hash.v, parent_hash |-> parent_hash.v,
                  timestamp |-> timestamp.v, gas_used |-> gas_used.v,
                  gas_limit |-> gas_limit.v, transactions |-> transactions.v,
                  miner |-> miner.v, difficulty |-> difficulty.v, size |-> size.v])
         ELSE Err("missing or invalid field")

\* <Option<T> as Deserialize>: a missing member is None.
SerdeOptU256(v) ==
    IF v.t \in {"absent", "null"} THEN Ok(None)
    ELSE LET r == SerdeU256(v) IN IF r.ok THEN Ok(Some(r.v)) ELSE r
SerdeOptAddress(v) ==
    IF v.t \in {"absent", "null"} THEN Ok(None)
    ELSE LET r == SerdeFixedBytes(v, AddressBytes) IN IF r.ok THEN Ok(Some(r.v)) ELSE r

\* serde_json::from_value::<Transaction>
from_value_Transaction(value) ==
    LET o == AsObject(value) IN
    IF ~o.ok THEN Err("invalid type")
    ELSE LET obj == o.v
             hash == SerdeFixedBytes(Get(obj, "hash"), B256Bytes)
             block_number == SerdeOptU256(Get(obj, "block_number"))
             from == SerdeFixedBytes(Get(obj, "from"), AddressBytes)
             to == SerdeOptAddress(Get(obj, "to"))
             val == SerdeU256(Get(obj, "value"))
             gas == SerdeU256(Get(obj, "gas"))
             gas_price == SerdeU256(Get(obj, "gas_price"))
             gas_used == SerdeOptU256(Get(obj, "gas_used"))
             status == SerdeOptU256(Get(obj, "status"))
         IN
         IF hash.ok /\ block_number.ok /\ from.ok /\ to.ok /\ val.ok /\ gas.ok
            /\ gas_price.ok /\ gas_used.ok /\ status.ok
         THEN Ok([hash |-> hash.v, block_number |-> block_number.v, from |-> from.v,
                  to |-> to.v, value |-> val.v, gas |-> gas.v, gas_price |-> gas_price.v,
                  gas_used |-> gas_used.v, status |-> status.v])
         ELSE Err("missing or invalid field")

\* <U256 as Serialize>::serialize: "0x" and the lower-case hex digits, "0x0"
\* for zero.
SerializeU256(n) ==
    JStr(<<"0", "x">> \o (IF n = <<>> THEN <<"0">> ELSE [i \in 1..Len(n) |-> DigitChar(n[i])]))
\* <Address as Serialize>::serialize: "0x" and the forty hex digits.
SerializeAddress(a) ==
    JStr(<<"0", "x">> \o [i \in 1..Len(a) |-> DigitChar(a[i])])

\* serde_json::to_value(&account)
to_value_Account(account) ==
    JObj([address |-> SerializeAddress(account.address),
          balance |-> SerializeU256(account.balance),
          nonce |-> SerializeU256(account.nonce),
          code_size |-> SerializeU256(account.code_size)])

\* from_value_Account reading the balance member for the nonce as well.
from_value_AccountMixed(value) ==
    LET o == AsObject(value) IN
    IF ~o.ok THEN Err("invalid type")
    ELSE LET obj == o.v
             address == SerdeFixedBytes(Get(obj, "address"), AddressBytes)
             balance == SerdeU256(Get(obj, "balance"))
             code_size == SerdeU256(Get(obj, "code_size"))
         IN
         IF address.ok /\ balance.ok /\ code_size.ok
         THEN Ok([address |-> address.v, balance |-> balance.v, nonce |-> balance.v,
                  code_size |-> code_size.v])
         ELSE Err("missing or invalid field")

\* serde_json::from_value::<Account>
from_value_Account(value) ==
    LET o == AsObject(value) IN
    IF ~o.ok THEN Err("invalid type")
    ELSE LET obj == o.v
             address == SerdeFixedBytes(Get(obj, "address"), AddressBytes)
             balance == SerdeU256(Get(obj, "balance"))
             nonce == SerdeU256(Get(obj, "nonce"))
             code_size == SerdeU256(Get(obj, "code_size"))
         IN
         IF address.ok /\ balance.ok /\ nonce.ok /\ code_size.ok
         THEN Ok([address |-> address.v, balance |-> balance.v, nonce |-> nonce.v,
                  code_size |-> code_size.v])
         ELSE Err("missing or invalid field")

\* ----------------------------------------------------------------- cache

\* Cache::builder().time_to_live(Duration::from_secs(300)), in seconds.
TTL == 300

\* CacheGet without the time to live.
CacheGetNoTTL(c, key) ==
    IF key \in DOMAIN c THEN Some(c[key].value) ELSE None

\* The cache holds, for each key written, the value and the time since the
\* write (counted up to TTL, from where on the entry is expired).
\* Cache::get: an entry is returned until its time to live has elapsed.
CacheGet(c, key) ==
    IF key \in DOMAIN c /\ c[key].age < TTL THEN Some(c[key].value) ELSE None

\* CacheInsert keeping the entry a key already has.
CacheInsertIfAbsent(c, key, value) ==
    [k \in DOMAIN c \cup {key} |-> IF k \in DOMAIN c THEN c[k] ELSE [value |-> value, age |-> 0]]

\* Cache::insert: the entry is written anew.
CacheInsert(c, key, value) ==
    [k \in DOMAIN c \cup {key} |-> IF k = key THEN [value |-> value, age |-> 0] ELSE c[k]]

\* The cache after d seconds.
Elapse(c, d) ==
    [k \in DOMAIN c |-> [c[k] EXCEPT !.age = IF @ + d >= TTL THEN TTL ELSE @ + d]]

\* --------------------------------------------------------------- retry

\* ExponentialBackoffBuilder::with_max_elapsed_time(Some(Duration::from_secs(30)))
MaxElapsed == 30

\* next_backoff of a policy that never retries.
next_backoff_never(elapsed, interval) == None

\* ExponentialBackoff::next_backoff, with the elapsed time and the
\* randomized interval it drew: the interval to sleep before the next
\* attempt, or None once the budget does not hold it.
next_backoff(elapsed, interval) ==
    IF elapsed > MaxElapsed THEN None
    ELSE IF elapsed + interval <= MaxElapsed THEN Some(interval)
    ELSE None

\* RetryError of a policy that keeps the first error.
RetryErrorFirst(first, last) == first

\* The error backoff::future::retry returns when it gives up: the error of
\* the attempt that failed last.
RetryError(first, last) == last

\* client.request::<T>: the answer deserialized as T; a transport failure,
\* and an answer that is no T, are errors.
Request(T, answer) ==
    IF answer.t = "fail" THEN Err("transport")
    ELSE IF T = "String" /\ answer.t # "str" THEN Err("parse")
    ELSE Ok(answer)
TransportFailure == [t |-> "fail"]

\* ------------------------------------------------------------ the node

\* The highest head height the node reports.
MaxHead == 1
\* The highest block count asked of get_gas_statistics.
MaxCount == 1

\* 2^64 - 1
HexU64Max == <<"0", "x">> \o Rep("f", U64Digits)
\* The gas used of the block of the chain at the height written block_hex.
ChainGas(block_hex) ==
    IF block_hex = <<"0", "x", "0">> THEN Hex5208 ELSE HexU64Max

\* What the node may answer to eth_getBlockByNumber(block_hex, true): the
\* block of the chain, or null where it does not hold it.
BlockAnswers(block_hex) ==
    {JNull, JObj(WireBlock(block_hex, ChainGas(block_hex)))}
\* 2^64
Hex2p64 == <<"0", "x", "1">> \o Rep("0", U64Digits)
\* The gas used a node may report for a block.
GasAnswers == {Hex5208, HexU64Max, Hex2p64}
\* What a node that is held to no chain may answer to
\* eth_getBlockByNumber(block_hex, true).
AnyBlockAnswers(block_hex) ==
    {JNull} \cup {JObj(WireBlock(block_hex, g)) : g \in GasAnswers}
\* What the node may answer to eth_getBlockByHash(block_hash, true).
BlockByHashAnswers == {JNull, JObj(WireBlock(Hex1, Hex5208))}
\* What the node may answer to eth_blockNumber.
HeadAnswers == {JStr(<<"0", "x">> \o LowerHex(h)) : h \in 0..MaxHead}
\* What the node may answer to eth_getTransactionByHash and to
\* eth_getTransactionReceipt.
TxAnswers == {JNull, JObj(WireTx)}
ReceiptAnswers == {JNull, JObj(WireReceipt)}

\* What the node may answer to eth_getBalance, eth_getTransactionCount and
\* eth_getCode.
BalanceAnswers == {JStr(Hex5208), JStr(<<"0", "x">>), JStr(<<"0", "x", "g">>)}
NonceAnswers == {JStr(Hex1), JStr(<<"0">>)}
CodeAnswers == {JStr(<<"0", "x">>), JStr(<<"0", "x", "6", "0", "8", "0">>), JStr(<<>>)}

\* The addresses and blocks callers ask the account of.
AddressArgs == {AddrT, ShortHex}
BlockArgs == {None, Some(1)}

\* The transaction hashes and the block hashes callers ask for.
TxHashArgs == {HashC}
BlockHashArgs == {HashA}

\* How long one request may last and how long the policy may sleep, in
\* seconds; the time that passes between two operations.
SlowCall == 31
CallDurations == {0, SlowCall}
ShortBackoff == 10
LongBackoff == 20
BackoffIntervals == {ShortBackoff, LongBackoff}
IdleTimes == {TTL \div 2, TTL}

\* ------------------------------------------------------------ the state

NotDecoded == [ok |-> FALSE, e |-> "not decoded"]

VARIABLES
    din,    \* the input of a pure function
    dout,   \* the function's result for din
    cache,  \* RethClient::cache
    op,     \* the query operation in progress, or the last one's outcome
    stats,  \* the get_gas_statistics call in progress, or the last one's outcome
    conn,   \* RethClient::new in progress, or its outcome
    conc,   \* two invocations of get_block_by_number running at once
    view    \* BlockchainExplorer::show_latest_blocks, as it runs

vars == <<din, dout, cache, op, stats, conn, conc, view>>
dvars == <<din, dout>>
cvars == <<cache, op, stats>>

\* format!("block_{}", block_number) and format!("tx_{}", tx_hash)
BlockKey(block_number) == <<"b", "l", "o", "c", "k", "_">> \o Decimal(block_number)
TxKey(tx_hash) == <<"t", "x", "_">> \o tx_hash
\* format!("block_hash_{}", block_hash)
BlockHashKey(block_hash) ==
    <<"b", "l", "o", "c", "k", "_", "h", "a", "s", "h", "_">> \o block_hash


\* BalanceKey without the block tag.
BalanceKeyNoTag(address, block_param) ==
    <<"b", "a", "l", "a", "n", "c", "e", "_">> \o address

\* get_account_balance's block parameter, and
\* format!("balance_{}_{}", address, block_param)
BlockParam(block) ==
    IF block.some THEN <<"0", "x">> \o LowerHex(block.v)
    ELSE <<"l", "a", "t", "e", "s", "t">>
BalanceKey(address, block_param) ==
    <<"b", "a", "l", "a", "n", "c", "e", "_">> \o address \o <<"_">> \o block_param

\* The cache key of the query q.
CacheKey(q) ==
    CASE q.fn = "get_block_by_number" -> BlockKey(q.arg)
      [] q.fn = "get_block_by_hash" -> BlockHashKey(q.arg)
      [] q.fn = "get_transaction" -> TxKey(q.arg)
      [] q.fn = "get_account_balance" -> BalanceKey(q.arg, BlockParam(q.block))

NoValue == [t |-> "absent"]
NoResult == [ok |-> FALSE, e |-> "none"]

IdleOp ==
    [fn |-> "none", arg |-> <<>>, caller |-> "user", pc |-> "idle", key |-> <<>>,
     hit |-> FALSE, stale |-> FALSE, live |-> FALSE, calls |-> 0,
     attempts |-> 0, fails |-> 0, elapsed |-> 0, interval |-> 0, retry |-> "none",
     first_err |-> 0, answer |-> NoValue, tx_result |-> NoValue, receipt |-> NoValue,
     balance |-> NoValue, nonce |-> NoValue, result |-> NoResult]
\* (answer records what the last request returned)

IdleStats ==
    [pc |-> "idle", count |-> 0, latest |-> 0, block_num |-> 0,
     total_gas_used |-> <<>>, total_gas_price |-> <<>>, max_gas_used |-> <<>>,
     min_gas_used |-> U64Max, blocks_processed |-> 0,
     tried |-> <<>>, gases |-> <<>>, result |-> NoResult]
\* (tried and gases record the loop's history: the block numbers asked
\* for, and the gas used of the blocks that were fetched)

\* RethClient::new has returned the client.
Ready == [pc |-> "ready", probes |-> 1, result |-> Ok("client")]
Connected == conn.pc = "ready"

\* show_latest_blocks before it is called: the block numbers it asked for,
\* the rows of its table, and what it returned.
IdleView ==
    [pc |-> "idle", count |-> 0, resolved |-> FALSE, latest |-> 0,
     start_block |-> 0, block_num |-> 0, tried |-> <<>>, rows |-> 0,
     result |-> NoResult]

\* No invocation runs beside the one of op.
NoTasks == [task |-> <<>>, last |-> NoValue]

ClientInit ==
    /\ cache = <<>>
    /\ op = IdleOp
    /\ stats = IdleStats
    /\ conn = Ready
    /\ conc = NoTasks
    /\ view = IdleView

\* RethClient::new has not been called; there is neither client nor cache.
NotConnected == [pc |-> "none", probes |-> 0, result |-> NoResult]
NoCache == [t |-> "absent"]

\* What the node may answer to eth_chainId.
ChainIdAnswers == {JStr(Hex1), JNull}

\* RethClient::new up to its await: the HTTP client is built, which fails
\* for an URL that does not parse, and the chain id is asked for.
New(url_ok) ==
    /\ conn.pc = "none"
    /\ conn' = IF url_ok THEN [conn EXCEPT !.pc = "probe"]
               ELSE [conn EXCEPT !.pc = "failed", !.result = Err("build")]
    /\ UNCHANGED <<cvars, dvars, conc, view>>

\* ProbeChainId asking again after a failure.
ProbeChainIdRetried(answer) ==
    /\ conn.pc = "probe"
    /\ LET r == Request("String", answer)
           probes == conn.probes + 1 IN
       IF r.ok
       THEN /\ conn' = [pc |-> "ready", probes |-> probes, result |-> Ok("client")]
            /\ cache' = <<>>
       ELSE /\ conn' = IF probes < 2 THEN [conn EXCEPT !.probes = probes]
                       ELSE [pc |-> "failed", probes |-> probes,
                             result |-> Err("Failed to connect to Reth node")]
            /\ UNCHANGED cache
    /\ UNCHANGED <<op, stats, dvars, conc, view>>

\* The rest of RethClient::new: the one eth_chainId request has returned;
\* its error is returned, otherwise the cache is built and the client
\* returned.
ProbeChainId(answer) ==
    /\ conn.pc = "probe"
    /\ LET r == Request("String", answer)
           probes == conn.probes + 1 IN
       IF r.ok
       THEN /\ conn' = [pc |-> "ready", probes |-> probes, result |-> Ok("client")]
            /\ cache' = <<>>
       ELSE /\ conn' = [pc |-> "failed", probes |-> probes,
                        result |-> Err("Failed to connect to Reth node")]
            /\ UNCHANGED cache
    /\ UNCHANGED <<op, stats, dvars, conc, view>>

\* No query operation is running.
Quiet == op.pc \in {"idle", "done"}
\* No aggregation is running.
StatsQuiet == stats.pc \in {"idle", "done"}

\* A query operation as it starts, before its cache lookup.
NewOp(fn, arg, caller, key) ==
    [IdleOp EXCEPT !.fn = fn, !.arg = arg, !.caller = caller, !.key = key,
                   !.stale = key \in DOMAIN cache /\ cache[key].age >= TTL,
                   !.live = key \in DOMAIN cache /\ cache[key].age < TTL]

\* get_block_by_number up to its first await on the network: the cache
\* lookup, and the return of a cached value that deserializes as a Block.
BeginGetBlock(block_number, caller) ==
    LET cache_key == BlockKey(block_number)
        cached == CacheGet(cache, cache_key)
        o == NewOp("get_block_by_number", block_number, caller, cache_key)
    IN
    /\ op' = IF cached.some /\ from_value_Block(cached.v).ok
             THEN [o EXCEPT !.pc = "done", !.hit = TRUE,
                            !.result = Ok(from_value_Block(cached.v).v)]
             ELSE [o EXCEPT !.pc = "call", !.hit = cached.some]
    /\ UNCHANGED cache

\* get_block_by_hash up to its first await on the network.
BeginGetBlockByHash(block_hash, caller) ==
    LET cache_key == BlockHashKey(block_hash)
        cached == CacheGet(cache, cache_key)
        o == NewOp("get_block_by_hash", block_hash, caller, cache_key)
    IN
    /\ op' = IF cached.some /\ from_value_Block(cached.v).ok
             THEN [o EXCEPT !.pc = "done", !.hit = TRUE,
                            !.result = Ok(from_value_Block(cached.v).v)]
             ELSE [o EXCEPT !.pc = "call", !.hit = cached.some]
    /\ UNCHANGED cache

\* get_latest_block_number up to its await on the network.
BeginLatest(caller) ==
    /\ op' = [NewOp("get_latest_block_number", <<>>, caller, <<>>) EXCEPT
                 !.pc = "call", !.stale = FALSE, !.live = FALSE]
    /\ UNCHANGED cache

\* get_account_balance up to its first await on the network.
BeginGetAccountBalance(address, block, caller) ==
    LET block_param == BlockParam(block)
        cache_key == BalanceKey(address, block_param)
        cached == CacheGet(cache, cache_key)
        o == NewOp("get_account_balance", [address |-> address, block |-> block],
                   caller, cache_key)
    IN
    /\ op' = IF cached.some /\ from_value_Account(cached.v).ok
             THEN [o EXCEPT !.pc = "done", !.hit = TRUE,
                            !.result = Ok(from_value_Account(cached.v).v)]
             ELSE [o EXCEPT !.pc = "call", !.hit = cached.some]
    /\ UNCHANGED cache

\* get_transaction up to its first await on the network.
BeginGetTransaction(tx_hash, caller) ==
    LET cache_key == TxKey(tx_hash)
        cached == CacheGet(cache, cache_key)
        o == NewOp("get_transaction", tx_hash, caller, cache_key)
    IN
    /\ op' = IF cached.some /\ from_value_Transaction(cached.v).ok
             THEN [o EXCEPT !.pc = "done", !.hit = TRUE,
                            !.result = Ok(from_value_Transaction(cached.v).v)]
             ELSE [o EXCEPT !.pc = "call", !.hit = cached.some]
    /\ UNCHANGED cache

GetBlockByNumber(n) ==
    /\ Connected /\ Quiet /\ StatsQuiet
    /\ BeginGetBlock(n, "user")
    /\ stats' = IdleStats
    /\ UNCHANGED <<dvars, conn, conc, view>>

GetBlockByHash(h) ==
    /\ Connected /\ Quiet /\ StatsQuiet
    /\ BeginGetBlockByHash(h, "user")
    /\ stats' = IdleStats
    /\ UNCHANGED <<dvars, conn, conc, view>>

GetLatestBlockNumber ==
    /\ Connected /\ Quiet /\ StatsQuiet
    /\ BeginLatest("user")
    /\ stats' = IdleStats
    /\ UNCHANGED <<dvars, conn, conc, view>>

GetTransaction(h) ==
    /\ Connected /\ Quiet /\ StatsQuiet
    /\ BeginGetTransaction(h, "user")
    /\ stats' = IdleStats
    /\ UNCHANGED <<dvars, conn, conc, view>>

GetAccountBalance(address, block) ==
    /\ Connected /\ Quiet /\ StatsQuiet
    /\ BeginGetAccountBalance(address, block, "user")
    /\ stats' = IdleStats
    /\ UNCHANGED <<dvars, conn, conc, view>>

\* The positions at which an operation waits for retry_rpc_call.
CallPcs == {"call", "call2", "call3"}

\* The request the operation is waiting on: its method, the type its
\* result is read as, and what the node may answer.
Method ==
    CASE op.fn = "get_block_by_number" -> "eth_getBlockByNumber"
      [] op.fn = "get_block_by_hash" -> "eth_getBlockByHash"
      [] op.fn = "get_latest_block_number" -> "eth_blockNumber"
      [] op.fn = "get_transaction" /\ op.pc = "call" -> "eth_getTransactionByHash"
      [] op.fn = "get_transaction" /\ op.pc = "call2" -> "eth_getTransactionReceipt"
      [] op.fn = "get_account_balance" /\ op.pc = "call" -> "eth_getBalance"
      [] op.fn = "get_account_balance" /\ op.pc = "call2" -> "eth_getTransactionCount"
      [] op.fn = "get_account_balance" /\ op.pc = "call3" -> "eth_getCode"
      [] OTHER -> "none"
ResultType ==
    IF Method \in {"eth_blockNumber", "eth_getBalance", "eth_getTransactionCount",
                   "eth_getCode"}
    THEN "String" ELSE "Value"
Answers ==
    CASE Method = "eth_getBlockByNumber" -> BlockAnswers(<<"0", "x">> \o LowerHex(op.arg))
      [] Method = "eth_getBlockByHash" -> BlockByHashAnswers
      [] Method = "eth_blockNumber" -> HeadAnswers
      [] Method = "eth_getTransactionByHash" -> TxAnswers
      [] Method = "eth_getTransactionReceipt" -> ReceiptAnswers
      [] Method = "eth_getBalance" -> BalanceAnswers
      [] Method = "eth_getTransactionCount" -> NonceAnswers
      [] Method = "eth_getCode" -> CodeAnswers
      [] OTHER -> {}

\* FinishGetBlock caching the result before it is decoded.
FinishGetBlockCacheFirst(o, result, c) ==
    LET block == parse_block(result) IN
    /\ op' = [o EXCEPT !.pc = "done",
                       !.result = IF block.ok THEN block ELSE Err("decode")]
    /\ cache' = CacheInsert(c, o.key, result)

\* The rest of get_block_by_number and of get_block_by_hash, once
\* retry_rpc_call has returned result, with the cache c: the decoded block
\* is returned and the raw result cached; a decode error is returned with
\* nothing cached.
FinishGetBlock(o, result, c) ==
    LET block == parse_block(result) IN
    IF block.ok
    THEN /\ op' = [o EXCEPT !.pc = "done", !.result = block]
         /\ cache' = CacheInsert(c, o.key, result)
    ELSE /\ op' = [o EXCEPT !.pc = "done", !.result = Err("decode")]
         /\ cache' = c

\* FinishLatest writing the head height to the cache.
FinishLatestCached(o, result, c) ==
    /\ op' = [o EXCEPT !.pc = "done", !.result = Ok(IntOf(U64FromStrRadix16(SubSeq(result.s, 3, Len(result.s))).v))]
    /\ cache' = CacheInsert(c, <<"l", "a", "t", "e", "s", "t">>, result)

\* The rest of get_latest_block_number: u64::from_str_radix(&result[2..], 16);
\* the slice panics on a string of fewer than two characters.
FinishLatest(o, result, c) ==
    LET s == result.s
        n == U64FromStrRadix16(SubSeq(s, 3, Len(s))) IN
    /\ op' = [o EXCEPT !.pc = "done",
                       !.result = IF Len(s) < 2 THEN Err("panic")
                                  ELSE IF n.ok THEN Ok(IntOf(n.v))
                                  ELSE Err("Failed to parse block number")]
    /\ cache' = c

\* get_transaction between its two requests: a new retry_rpc_call starts.
KeepTxResult(o, tx_result, c) ==
    /\ op' = [o EXCEPT !.pc = "call2", !.tx_result = tx_result,
                       !.attempts = 0, !.fails = 0, !.elapsed = 0, !.interval = 0,
                       !.retry = "none", !.first_err = 0]
    /\ cache' = c

\* FinishGetTransaction returning the transaction without caching it.
FinishGetTransactionNoInsert(o, receipt_result, c) ==
    LET transaction == parse_transaction(o.tx_result, receipt_result) IN
    /\ op' = [o EXCEPT !.pc = "done", !.receipt = receipt_result,
                       !.result = IF transaction.ok THEN transaction ELSE Err("decode")]
    /\ cache' = c

\* The rest of get_transaction, once the receipt request has returned.
FinishGetTransaction(o, receipt_result, c) ==
    LET transaction == parse_transaction(o.tx_result, receipt_result) IN
    IF transaction.ok
    THEN /\ op' = [o EXCEPT !.pc = "done", !.receipt = receipt_result,
                            !.result = transaction]
         /\ cache' = CacheInsert(c, o.key, o.tx_result)
    ELSE /\ op' = [o EXCEPT !.pc = "done", !.receipt = receipt_result,
                            !.result = Err("decode")]
         /\ cache' = c

\* get_account_balance between its requests: a new retry_rpc_call starts.
KeepBalance(o, balance, c) ==
    /\ op' = [o EXCEPT !.pc = "call2", !.balance = balance,
                       !.attempts = 0, !.fails = 0, !.elapsed = 0, !.interval = 0,
                       !.retry = "none", !.first_err = 0]
    /\ cache' = c
KeepNonce(o, nonce, c) ==
    /\ op' = [o EXCEPT !.pc = "call3", !.nonce = nonce,
                       !.attempts = 0, !.fails = 0, !.elapsed = 0, !.interval = 0,
                       !.retry = "none", !.first_err = 0]
    /\ cache' = c

\* U256::from_str_radix(&s[2..], 16); the slice panics on a string of
\* fewer than two characters.
U256After0x(s) ==
    IF Len(s) < 2 THEN Err("panic") ELSE U256FromStrRadix16(SubSeq(s, 3, Len(s)))

\* (code.len() - 2) / 2 in usize: below two characters the subtraction
\* overflows, which panics (overflow checks on) or wraps.
CodeSize(code, wraps) ==
    IF Len(code) >= 2 THEN Ok(NatOf((Len(code) - 2) \div 2))
    ELSE IF wraps THEN Ok(<<7>> \o Rep(15, U64Digits - 1))
    ELSE Err("panic")

\* The Account built from the three results.
BuildAccount(address, balance, nonce, code, wraps) ==
    LET a == FixedBytesFromStr(address, AddressBytes)
        b == U256After0x(balance)
        n == U256After0x(nonce)
        s == CodeSize(code, wraps)
    IN
    IF ~a.ok THEN Err("Invalid address format")
    ELSE IF ~b.ok THEN (IF b.e = "panic" THEN b ELSE Err("Failed to parse balance"))
    ELSE IF ~n.ok THEN (IF n.e = "panic" THEN n ELSE Err("Failed to parse nonce"))
    ELSE IF ~s.ok THEN s
    ELSE Ok([address |-> a.v, balance |-> b.v, nonce |-> n.v, code_size |-> s.v])

\* The rest of get_account_balance, once the code request has returned:
\* the account is built, its serialization cached and the account returned.
FinishGetAccountBalance(o, code, c) ==
    \E wraps \in BOOLEAN :
        LET account == BuildAccount(o.arg.address, o.balance.s, o.nonce.s, code.s, wraps) IN
        IF account.ok
        THEN /\ op' = [o EXCEPT !.pc = "done", !.result = account]
             /\ cache' = CacheInsert(c, o.key, to_value_Account(account.v))
        ELSE /\ op' = [o EXCEPT !.pc = "done", !.result = account]
             /\ cache' = c

\* Attempt dropping the entry of the operation's key when the request fails.
AttemptInvalidating(d, answer, interval) ==
    /\ op.pc \in CallPcs
    /\ LET r == Request(ResultType, answer)
           elapsed == op.elapsed + d
           aged == Elapse(cache, d)
           o == [op EXCEPT !.calls = @ + 1, !.attempts = @ + 1, !.elapsed = elapsed]
       IN
       IF r.ok
       THEN LET got == [o EXCEPT !.retry = "ok", !.answer = r.v] IN
            CASE Method = "eth_getBlockByNumber" -> FinishGetBlock(got, r.v, aged)
              [] Method = "eth_getBlockByHash" -> FinishGetBlock(got, r.v, aged)
              [] Method = "eth_blockNumber" -> FinishLatest(got, r.v, aged)
              [] Method = "eth_getTransactionByHash" -> KeepTxResult(got, r.v, aged)
              [] Method = "eth_getTransactionReceipt" -> FinishGetTransaction(got, r.v, aged)
              [] Method = "eth_getBalance" -> KeepBalance(got, r.v, aged)
              [] Method = "eth_getTransactionCount" -> KeepNonce(got, r.v, aged)
              [] Method = "eth_getCode" -> FinishGetAccountBalance(got, r.v, aged)
       ELSE LET f == [o EXCEPT !.fails = @ + 1, !.interval = interval,
                               !.first_err = IF @ = 0 THEN o.attempts ELSE @]
                nb == next_backoff(elapsed, interval)
            IN
            IF nb.some
            THEN /\ op' = [f EXCEPT !.elapsed = elapsed + nb.v]
                 /\ cache' = [k \in DOMAIN cache \ {op.key} |-> Elapse(aged, nb.v)[k]]
            ELSE /\ op' = [f EXCEPT !.pc = "done", !.retry = "err",
                                   !.result = Err([attempt |-> RetryError(f.first_err, f.attempts)])]
                 /\ cache' = [k \in DOMAIN cache \ {op.key} |-> aged[k]]
    /\ UNCHANGED <<stats, dvars, conn, conc, view>>

\* One attempt of retry_rpc_call for the waiting operation: the request
\* lasts d seconds and the node answers or the transport fails. A result
\* ends the retry and the operation goes on; on a failure the policy draws
\* an interval and sleeps it, or gives up and the operation returns the
\* error.
Attempt(d, answer, interval) ==
    /\ op.pc \in CallPcs
    /\ LET r == Request(ResultType, answer)
           elapsed == op.elapsed + d
           aged == Elapse(cache, d)
           o == [op EXCEPT !.calls = @ + 1, !.attempts = @ + 1, !.elapsed = elapsed]
       IN
       IF r.ok
       THEN LET got == [o EXCEPT !.retry = "ok", !.answer = r.v] IN
            CASE Method = "eth_getBlockByNumber" -> FinishGetBlock(got, r.v, aged)
              [] Method = "eth_getBlockByHash" -> FinishGetBlock(got, r.v, aged)
              [] Method = "eth_blockNumber" -> FinishLatest(got, r.v, aged)
              [] Method = "eth_getTransactionByHash" -> KeepTxResult(got, r.v, aged)
              [] Method = "eth_getTransactionReceipt" -> FinishGetTransaction(got, r.v, aged)
              [] Method = "eth_getBalance" -> KeepBalance(got, r.v, aged)
              [] Method = "eth_getTransactionCount" -> KeepNonce(got, r.v, aged)
              [] Method = "eth_getCode" -> FinishGetAccountBalance(got, r.v, aged)
       ELSE LET f == [o EXCEPT !.fails = @ + 1, !.interval = interval,
                               !.first_err = IF @ = 0 THEN o.attempts ELSE @]
                nb == next_backoff(elapsed, interval)
            IN
            IF nb.some
            THEN /\ op' = [f EXCEPT !.elapsed = elapsed + nb.v]
                 /\ cache' = Elapse(aged, nb.v)
            ELSE /\ op' = [f EXCEPT !.pc = "done", !.retry = "err",
                                   !.result = Err([attempt |-> RetryError(f.first_err, f.attempts)])]
                 /\ cache' = aged
    /\ UNCHANGED <<stats, dvars, conn, conc, view>>

\* Time passes between two operations, while some entry is yet to
\* expire; what the last operation returned is with its caller.
Idle(d) ==
    /\ Quiet /\ StatsQuiet
    /\ \E k \in DOMAIN cache : cache[k].age < TTL
    /\ cache' = Elapse(cache, d)
    /\ op' = IdleOp
    /\ stats' = IdleStats
    /\ UNCHANGED <<dvars, conn, conc, view>>

\* Time passes between two operations, while some entry is yet to
\* expire; the caller keeps what the last operation returned.
Later(d) ==
    /\ Quiet /\ StatsQuiet
    /\ \E k \in DOMAIN cache : cache[k].age < TTL
    /\ cache' = Elapse(cache, d)
    /\ UNCHANGED <<op, stats, dvars, conn, conc, view>>

\* ------------------------------------------------------ gas statistics

\* 25_000_000_000, the gas price estimated per block.
GasPriceEstimate == <<5, 13, 2, 1, 13, 11, 10, 0, 0>>

\* a + b in u64: on overflow the build either panics (overflow checks on,
\* as in a debug build) or wraps (as in a release build).
AddU64(a, b, wraps) ==
    LET s == NatAdd(a, b) IN
    IF FitsU64(s) THEN Ok(s)
    ELSE IF wraps THEN Ok(WrapU64(s)) ELSE Err("panic")

\* get_gas_statistics up to its first await: the head height is asked for.
GetGasStatistics(block_count) ==
    /\ Connected /\ Quiet /\ StatsQuiet
    /\ stats' = [IdleStats EXCEPT !.pc = "latest", !.count = block_count]
    /\ BeginLatest("stats")
    /\ UNCHANGED <<dvars, conn, conc, view>>

\* get_latest_block_number has returned to get_gas_statistics: an error is
\* returned to the caller; otherwise the loop starts at
\* latest_block.saturating_sub(block_count).
StatsGotLatest ==
    /\ stats.pc = "latest" /\ op.pc = "done"
    /\ IF ~op.result.ok
       THEN /\ stats' = [stats EXCEPT !.pc = "done", !.result = op.result]
            /\ UNCHANGED <<op, cache>>
       ELSE LET latest_block == op.result.v
                start_block == IF latest_block >= stats.count
                               THEN latest_block - stats.count ELSE 0
            IN
            /\ stats' = [stats EXCEPT !.pc = "loop", !.latest = latest_block,
                                      !.block_num = start_block,
                                      !.tried = <<start_block>>]
            /\ BeginGetBlock(start_block, "stats")
    /\ UNCHANGED <<dvars, conn, conc, view>>

\* Summary dividing by at least one instead of reporting an empty window.
SummaryNoEmptyCheck(s) ==
    LET n == IF s.blocks_processed = 0 THEN 1 ELSE s.blocks_processed IN
    Ok([avg_gas_used |-> NatDiv(s.total_gas_used, n),
        avg_gas_price |-> NatDiv(s.total_gas_price, n),
        max_gas_used |-> s.max_gas_used,
        min_gas_used |-> s.min_gas_used,
        blocks_analyzed |-> s.blocks_processed])

\* The statistics returned after the loop.
Summary(s) ==
    IF s.blocks_processed = 0
    THEN Err("No blocks found for gas statistics")
    ELSE Ok([avg_gas_used |-> NatDiv(s.total_gas_used, s.blocks_processed),
             avg_gas_price |-> NatDiv(s.total_gas_price, s.blocks_processed),
             max_gas_used |-> s.max_gas_used,
             min_gas_used |-> s.min_gas_used,
             blocks_analyzed |-> s.blocks_processed])

\* Accumulate with the running minimum started at zero.
AccumulateMinFromZero(s, block, wraps) ==
    LET total == AddU64(s.total_gas_used, block.gas_used, wraps)
        price == AddU64(s.total_gas_price, GasPriceEstimate, wraps) IN
    IF ~FitsU64(block.gas_used) \/ ~total.ok \/ ~price.ok
    THEN [s EXCEPT !.pc = "done", !.result = Err("panic")]
    ELSE [s EXCEPT !.total_gas_used = total.v,
                   !.max_gas_used = NatMax(@, block.gas_used),
                   !.min_gas_used = NatMin(<<>>, block.gas_used),
                   !.blocks_processed = @ + 1,
                   !.total_gas_price = price.v]

\* The loop body for a fetched block.
Accumulate(s, block, wraps) ==
    LET total == AddU64(s.total_gas_used, block.gas_used, wraps)
        price == AddU64(s.total_gas_price, GasPriceEstimate, wraps) IN
    IF ~FitsU64(block.gas_used) \/ ~total.ok \/ ~price.ok
    THEN [s EXCEPT !.pc = "done", !.result = Err("panic")]
    ELSE [s EXCEPT !.total_gas_used = total.v,
                   !.max_gas_used = NatMax(@, block.gas_used),
                   !.min_gas_used = NatMin(@, block.gas_used),
                   !.blocks_processed = @ + 1,
                   !.total_gas_price = price.v]

\* get_block_by_number has returned to the loop: a block is accumulated,
\* a failure is skipped; then the next block is asked for, or the loop
\* ends and the statistics are returned.
StatsGotBlock(wraps) ==
    /\ stats.pc = "loop" /\ op.pc = "done"
    /\ LET s == IF op.result.ok
                THEN Accumulate([stats EXCEPT !.gases = Append(@, op.result.v.gas_used)],
                                op.result.v, wraps)
                ELSE stats IN
       IF s.pc = "done"
       THEN stats' = s /\ UNCHANGED <<op, cache>>
       ELSE IF s.block_num = s.latest
       THEN stats' = [s EXCEPT !.pc = "done", !.result = Summary(s)]
            /\ UNCHANGED <<op, cache>>
       ELSE /\ stats' = [s EXCEPT !.block_num = @ + 1, !.tried = Append(@, s.block_num + 1)]
            /\ BeginGetBlock(s.block_num + 1, "stats")
    /\ UNCHANGED <<dvars, conn, conc, view>>

\* ------------------------------------------------------ specifications

Init ==
    /\ ClientInit
    /\ din = [kind |-> "none"]
    /\ dout = NotDecoded

\* The block queries and the aggregation over them; a request fails at
\* once or is answered at once, and the policy sleeps the whole budget.
Next ==
    \/ \E n \in 0..MaxHead : GetBlockByNumber(n)
    \/ GetLatestBlockNumber
    \/ \E c \in 0..MaxCount : GetGasStatistics(c)
    \/ \E a \in Answers \cup {TransportFailure} : Attempt(0, a, MaxElapsed)
    \/ StatsGotLatest
    \/ \E wraps \in BOOLEAN : StatsGotBlock(wraps)
    \/ \E d \in IdleTimes : Idle(d)

Spec == Init /\ [][Next]_vars

\* One query operation on a new client, with every timing of its requests
\* and of the policy's sleeps.
StartOne ==
    /\ op.pc = "idle"
    /\ \/ \E n \in 0..MaxHead : GetBlockByNumber(n)
       \/ \E h \in BlockHashArgs : GetBlockByHash(h)
       \/ GetLatestBlockNumber
       \/ \E h \in TxHashArgs : GetTransaction(h)
       \/ \E a \in AddressArgs, b \in BlockArgs : GetAccountBalance(a, b)

RetryNext ==
    \/ StartOne
    \/ \E d \in CallDurations, i \in BackoffIntervals :
          \E a \in Answers \cup {TransportFailure} : Attempt(d, a, i)

RetrySpec == Init /\ [][RetryNext]_vars

\* The transaction queries of one client over time.
TxNext ==
    \/ \E h \in TxHashArgs : GetTransaction(h)
    \/ \E a \in Answers \cup {TransportFailure} : Attempt(0, a, MaxElapsed)
    \/ \E d \in IdleTimes : Idle(d)

TxSpec == Init /\ [][TxNext]_vars

\* The account queries of one client over time, the node answering every
\* request at once.
AccountNext ==
    \/ \E a \in AddressArgs, b \in BlockArgs : GetAccountBalance(a, b)
    \/ \E a \in Answers : Attempt(0, a, MaxElapsed)
    \/ \E d \in IdleTimes : Later(d)

AccountSpec == Init /\ [][AccountNext]_vars

\* One aggregation on a new client, over a node held to no chain.
StartStats ==
    /\ stats.pc = "idle"
    /\ \E c \in 0..MaxCount : GetGasStatistics(c)

StatsAnswers ==
    IF Method = "eth_getBlockByNumber"
    THEN AnyBlockAnswers(<<"0", "x">> \o LowerHex(op.arg))
    ELSE Answers

StatsNext ==
    \/ StartStats
    \/ \E a \in StatsAnswers \cup {TransportFailure} : Attempt(0, a, MaxElapsed)
    \/ StatsGotLatest
    \/ \E wraps \in BOOLEAN : StatsGotBlock(wraps)

StatsSpec == Init /\ [][StatsNext]_vars

\* show_latest_blocks up to its first await: the head height is asked for.
ShowLatestBlocks(count) ==
    /\ Connected /\ Quiet /\ StatsQuiet /\ view.pc = "idle"
    /\ view' = [IdleView EXCEPT !.pc = "latest", !.count = count]
    /\ BeginLatest("view")
    /\ UNCHANGED <<stats, dvars, conn, conc>>

\* count as u64 - 1: the subtraction of a build with overflow checks
\* panics below zero, the one of a build without them wraps.
CountMinusOne(count, wraps) ==
    IF count >= 1 THEN Ok(NatOf(count - 1))
    ELSE IF wraps THEN Ok(U64Max) ELSE Err("panic")

\* u64::saturating_sub of a head height and a 64-bit number.
SaturatingSub(a, b) == IF NatLess(NatOf(a), b) THEN 0 ELSE a - IntOf(b)

\* get_latest_block_number has returned to show_latest_blocks: an error is
\* returned by the ? operator; otherwise the window starts at
\* latest_block_num.saturating_sub(count as u64 - 1) and is walked from the
\* head downwards.
ViewGotLatest(wraps) ==
    /\ view.pc = "latest" /\ op.pc = "done"
    /\ IF ~op.result.ok
       THEN /\ view' = [view EXCEPT !.pc = "done", !.result = op.result]
            /\ UNCHANGED <<op, cache>>
       ELSE LET latest_block_num == op.result.v
                back == CountMinusOne(view.count, wraps) IN
            IF ~back.ok
            THEN /\ view' = [view EXCEPT !.pc = "done", !.resolved = TRUE,
                                         !.latest = latest_block_num,
                                         !.result = Err("panic")]
                 /\ UNCHANGED <<op, cache>>
            ELSE /\ view' = [view EXCEPT !.pc = "loop", !.resolved = TRUE,
                                         !.latest = latest_block_num,
                                         !.start_block = SaturatingSub(latest_block_num, back.v),
                                         !.block_num = latest_block_num,
                                         !.tried = <<latest_block_num>>]
                 /\ BeginGetBlock(latest_block_num, "view")
    /\ UNCHANGED <<stats, dvars, conn, conc>>

\* U256::to::<u128>() and to::<u64>() of the row of a fetched block panic
\* for a value that does not fit.
U128Digits == 32
RowPanics(block) == Len(block.gas_used) > U128Digits \/ ~FitsU64(block.timestamp)

\* get_block_by_number has returned to the loop: a fetched block becomes a
\* row of the table, a failure is printed and skipped; then the block below
\* is asked for, or the table is printed and Ok(()) returned.
ViewGotBlock ==
    /\ view.pc = "loop" /\ op.pc = "done"
    /\ LET v == IF op.result.ok THEN [view EXCEPT !.rows = @ + 1] ELSE view IN
       IF op.result.ok /\ RowPanics(op.result.v)
       THEN /\ view' = [view EXCEPT !.pc = "done", !.result = Err("panic")]
            /\ UNCHANGED <<op, cache>>
       ELSE IF v.block_num = v.start_block
       THEN /\ view' = [v EXCEPT !.pc = "done", !.result = Ok("()")]
            /\ UNCHANGED <<op, cache>>
       ELSE /\ view' = [v EXCEPT !.block_num = @ - 1, !.tried = Append(@, v.block_num - 1)]
            /\ BeginGetBlock(v.block_num - 1, "view")
    /\ UNCHANGED <<stats, dvars, conn, conc>>

\* One latest command on a new client, for counts up to MaxShown; a request
\* fails at once or is answered at once.
MaxShown == 3
ViewNext ==
    \/ \E count \in 0..MaxShown : ShowLatestBlocks(count)
    \/ \E a \in Answers \cup {TransportFailure} : Attempt(0, a, MaxElapsed)
    \/ \E wraps \in BOOLEAN : ViewGotLatest(wraps)
    \/ ViewGotBlock

ViewSpec == Init /\ [][ViewNext]_vars

\* Two invocations of get_block_by_number on one client, within the time
\* to live; each is a task that is polled from one await to the next.
Tasks == {1, 2}
IdleTask == [pc |-> "idle", arg |-> 0, missed |-> FALSE, wrote |-> FALSE,
             answer |-> NoValue, result |-> NoResult]

ConcInit ==
    /\ conc = [task |-> [p \in Tasks |-> IdleTask], last |-> NoValue]
    /\ view = IdleView
    /\ cache = <<>>
    /\ op = IdleOp
    /\ stats = IdleStats
    /\ conn = Ready
    /\ din = [kind |-> "none"]
    /\ dout = NotDecoded

\* get_block_by_number of task p up to its await on the network.
ConcBegin(p, block_number) ==
    /\ conc.task[p].pc = "idle"
    /\ LET cached == CacheGet(cache, BlockKey(block_number))
           t == [IdleTask EXCEPT !.arg = block_number, !.missed = ~cached.some]
       IN
       conc' = [conc EXCEPT !.task[p] =
                   IF cached.some /\ from_value_Block(cached.v).ok
                   THEN [t EXCEPT !.pc = "done", !.result = Ok(from_value_Block(cached.v).v)]
                   ELSE [t EXCEPT !.pc = "call"]]
    /\ UNCHANGED <<cache, op, stats, conn, dvars, view>>

\* The rest of get_block_by_number of task p: retry_rpc_call has returned
\* the node's answer, or its error after giving up.
ConcFinish(p, answer) ==
    /\ conc.task[p].pc = "call"
    /\ LET r == Request("Value", answer)
           block == parse_block(answer)
           t == [conc.task[p] EXCEPT !.pc = "done", !.answer = answer]
       IN
       IF r.ok /\ block.ok
       THEN /\ cache' = CacheInsert(cache, BlockKey(t.arg), answer)
            /\ conc' = [conc EXCEPT !.task[p] = [t EXCEPT !.wrote = TRUE, !.result = block],
                                    !.last = answer]
       ELSE /\ conc' = [conc EXCEPT !.task[p] =
                           [t EXCEPT !.result = IF r.ok THEN Err("decode") ELSE r]]
            /\ UNCHANGED cache
    /\ UNCHANGED <<op, stats, conn, dvars, view>>

ConcAnswers(p) == AnyBlockAnswers(<<"0", "x">> \o LowerHex(conc.task[p].arg))

ConcStep(p) ==
    \/ \E n \in 0..MaxHead : ConcBegin(p, n)
    \/ \E a \in ConcAnswers(p) \cup {TransportFailure} : ConcFinish(p, a)

ConcNext == \E p \in Tasks : ConcStep(p)

\* The runtime polls every task that can go on, and every request returns
\* within its timeout.
ConcSpec == ConcInit /\ [][ConcNext]_vars /\ \A p \in Tasks : WF_vars(ConcStep(p))

\* A process from before it connects: RethClient::new, then one query
\* operation on the client it returned.
ConnectInit ==
    /\ conn = NotConnected
    /\ cache = NoCache
    /\ op = IdleOp
    /\ stats = IdleStats
    /\ conc = NoTasks
    /\ view = IdleView
    /\ din = [kind |-> "none"]
    /\ dout = NotDecoded

ConnectNext ==
    \/ \E url_ok \in BOOLEAN : New(url_ok)
    \/ \E a \in ChainIdAnswers \cup {TransportFailure} : ProbeChainId(a)
    \/ RetryNext

ConnectSpec == ConnectInit /\ [][ConnectNext]_vars

\* The strings callers pass for a hash or an address, and the queries
\* they make.
KeyStrings == {HashC, AddrT, AddrT \o <<"_", "0", "x", "1">>, <<"1">>}
Queries ==
    [fn : {"get_block_by_number"}, arg : 0..MaxHead, block : {None}]
    \cup [fn : {"get_block_by_hash", "get_transaction"}, arg : KeyStrings, block : {None}]
    \cup [fn : {"get_account_balance"}, arg : KeyStrings,
          block : {None} \cup {Some(n) : n \in 0..MaxHead}]

\* The cache keys of two queries.
KeyInit ==
    /\ din \in [kind : {"keys"}, q1 : Queries, q2 : Queries]
    /\ dout = NotDecoded
    /\ ClientInit

FormatKeys ==
    /\ din.kind = "keys"
    /\ dout = NotDecoded
    /\ dout' = Ok([k1 |-> CacheKey(din.q1), k2 |-> CacheKey(din.q2)])
    /\ UNCHANGED <<din, cvars, conn, conc, view>>

KeySpec == KeyInit /\ [][FormatKeys]_vars

\* f64 values are held as fractions in lowest terms; the rounding of a
\* quotient to 53 bits is left out.
RECURSIVE Gcd(_, _)
Gcd(a, b) == IF b = 0 THEN a ELSE Gcd(b, a % b)
Fraction(num, den) ==
    LET g == Gcd(num, den) IN [num |-> num \div g, den |-> den \div g]
\* u64 as f64, f64 / f64 for a divisor that is not zero, and f64 * f64
AsF64(n) == [num |-> n, den |-> 1]
F64Div(x, y) == Fraction(x.num * y.den, x.den * y.num)
F64Mul(x, y) == Fraction(x.num * y.num, x.den * y.den)

\* calculate_gas_utilization dividing in u64.
calculate_gas_utilization_u64(gas_used, gas_limit) ==
    IF gas_limit = 0 THEN AsF64(0)
    ELSE AsF64((gas_used \div gas_limit) * 100)

\* utils::calculate_gas_utilization
calculate_gas_utilization(gas_used, gas_limit) ==
    IF gas_limit = 0 THEN AsF64(0)
    ELSE F64Mul(F64Div(AsF64(gas_used), AsF64(gas_limit)), AsF64(100))

\* The highest gas used and gas limit of the small inputs, and the values
\* of the function's unit test.
MaxGas == 10
TestGasUsed == 15000000
TestGasLimit == 30000000

\* calculate_gas_utilization alone.
UtilInit ==
    /\ din \in [kind : {"util"}, gas_used : 0..MaxGas, gas_limit : 0..MaxGas]
              \cup [kind : {"util"}, gas_used : {0, TestGasUsed}, gas_limit : {TestGasLimit}]
    /\ dout = NotDecoded
    /\ ClientInit

CalculateGasUtilization ==
    /\ din.kind = "util"
    /\ dout = NotDecoded
    /\ dout' = Ok(calculate_gas_utilization(din.gas_used, din.gas_limit))
    /\ UNCHANGED <<din, cvars, conn, conc, view>>

UtilSpec == UtilInit /\ [][CalculateGasUtilization]_vars

\* utils::hex_to_decimal: strip_prefix("0x") and u64::from_str_radix
hex_to_decimal(hex_str) ==
    LET clean_hex == IF Len(hex_str) >= 2 /\ hex_str[1] = "0" /\ hex_str[2] = "x"
                     THEN SubSeq(hex_str, 3, Len(hex_str)) ELSE hex_str IN
    U64FromStrRadix16(clean_hex)

\* FormatLowerHex writing the digits from the last to the first.
FormatLowerHexReversed(v) ==
    <<"0", "x">> \o (IF v = <<>> THEN <<"0">>
                     ELSE [i \in 1..Len(v) |-> DigitChar(v[Len(v) + 1 - i])])

\* format!("0x{:x}", v) of a u64
FormatLowerHex(v) ==
    <<"0", "x">> \o (IF v = <<>> THEN <<"0">> ELSE [i \in 1..Len(v) |-> DigitChar(v[i])])

\* The strings given to hex_to_decimal: every string of up to MaxHexLen of
\* the characters of HexAlphabet, bare and after "0x", and the strings of
\* sixteen and of seventeen digits.
MaxHexLen == 3
HexAlphabet == {"0", "1", "a", "F", "x", "+"}
RECURSIVE StringsUpTo(_)
StringsUpTo(n) ==
    IF n = 0 THEN {<<>>}
    ELSE LET shorter == StringsUpTo(n - 1) IN
         shorter \cup {Append(t, c) : t \in shorter, c \in HexAlphabet}
HexInputs ==
    LET bare == StringsUpTo(MaxHexLen)
                \cup {Rep("f", U64Digits), Rep("F", U64Digits), <<"1">> \o Rep("0", U64Digits)}
    IN bare \cup {<<"0", "x">> \o t : t \in bare}

\* hex_to_decimal alone, with its result written as get_block_by_number
\* writes a block number and read again.
CodecInit ==
    /\ din \in [kind : {"hex"}, s : HexInputs]
    /\ dout = NotDecoded
    /\ ClientInit

HexRoundTrip ==
    /\ din.kind = "hex"
    /\ dout = NotDecoded
    /\ LET first == hex_to_decimal(din.s)
           encoded == IF first.ok THEN FormatLowerHex(first.v) ELSE <<>>
       IN dout' = Ok([first |-> first, encoded |-> encoded,
                      second |-> IF first.ok THEN hex_to_decimal(encoded) ELSE first])
    /\ UNCHANGED <<din, cvars, conn, conc, view>>

CodecSpec == CodecInit /\ [][HexRoundTrip]_vars

\* The decoder alone, on every input of DecodeInputs.
DecodeInit ==
    /\ din \in DecodeInputs
    /\ dout = NotDecoded
    /\ ClientInit

DecodeBlock ==
    /\ din.kind = "block"
    /\ dout = NotDecoded
    /\ dout' = parse_block(din.value)
    /\ UNCHANGED <<din, cvars, conn, conc, view>>

DecodeTransaction ==
    /\ din.kind = "tx"
    /\ dout = NotDecoded
    /\ dout' = parse_transaction(din.value, din.receipt)
    /\ UNCHANGED <<din, cvars, conn, conc, view>>

DecodeNext == DecodeBlock \/ DecodeTransaction

DecodeSpec == DecodeInit /\ [][DecodeNext]_vars

\* The entries a node may put in a block's transactions array, and the
\* arrays of up to MaxTxs of them.
MaxTxs == 3
TxEntries ==
    {JStr(HashA), JStr(HashB), JObj([hash |-> JStr(HashC)]),
     JObj([hash |-> JStr(ShortHex), from |-> JStr(AddrT)]), JStr(ShortHex),
     JObj([from |-> JStr(AddrT)]), JObj([hash |-> JOther]), JNull}
RECURSIVE TxArrays(_)
TxArrays(n) ==
    IF n = 0 THEN {<<>>}
    ELSE LET shorter == TxArrays(n - 1) IN
         shorter \cup {Append(a, e) : a \in shorter, e \in TxEntries}

\* parse_block alone, on blocks that differ in their transactions array.
TxListInit ==
    /\ din \in {[kind |-> "block",
                 value |-> JObj([WireBlock(Hex1, Hex5208) EXCEPT !.transactions = JArr(a)])] :
               a \in TxArrays(MaxTxs)}
    /\ dout = NotDecoded
    /\ ClientInit

TxListSpec == TxListInit /\ [][DecodeBlock]_vars

\* --------------------------------------------------------------- claims

\* C1: a get_block_by_number(n) that finds a live cache entry for n, written
\* by an earlier successful get_block_by_number(n), issues no request.
C1_CacheHit ==
    (op.fn = "get_block_by_number" /\ op.live) => op.calls = 0

\* C2: get_transaction on a well-formed transaction object whose receipt is
\* JSON null returns a Transaction with gas_used = None and status = None.
C2_PendingReceipt ==
    (/\ op.fn = "get_transaction" /\ op.pc = "done"
     /\ op.tx_result = JObj(WireTx) /\ op.receipt = JNull)
    => (op.result.ok /\ op.result.v.gas_used = None /\ op.result.v.status = None)

\* C3: while retry_rpc_call is running every attempt so far has failed; it
\* returns a result on the attempt after its k failures, k + 1 attempts in
\* all; and it returns an error only when the budget does not hold another
\* attempt.
C3_RetrySuccess ==
    /\ op.pc \in CallPcs => op.attempts = op.fails
    /\ op.retry = "ok" => op.attempts = op.fails + 1
    /\ op.retry = "err" =>
          /\ op.attempts = op.fails
          /\ \/ op.elapsed > MaxElapsed
             \/ op.elapsed + op.interval > MaxElapsed

C3_ThreeAttempts == op.retry = "ok" /\ op.fails = 2 /\ op.attempts = 3

\* C4: retry_rpc_call starts no attempt once more than the budget has
\* elapsed, makes a bounded number of attempts, and on giving up returns the
\* error of the attempt that failed last.
C4_RetryTerminates ==
    /\ op.pc \in CallPcs => op.elapsed <= MaxElapsed
    /\ op.attempts * ShortBackoff <= MaxElapsed + ShortBackoff
    /\ op.retry = "err" =>
          /\ op.pc = "done"
          /\ op.result = Err([attempt |-> op.attempts])

C4_GaveUp == op.retry = "err" /\ op.attempts >= 3 /\ op.elapsed <= MaxElapsed

\* C5: get_gas_statistics that resolved the head height and saw every block
\* fetch of its window fail returns the 'no data' error.
C5_EmptyAggregation ==
    (stats.pc = "done" /\ stats.tried # <<>> /\ stats.gases = <<>>)
    => stats.result = Err("No blocks found for gas statistics")

C5_AllFailed ==
    /\ stats.pc = "done" /\ Len(stats.tried) = 2 /\ stats.gases = <<>>
    /\ stats.result = Err("No blocks found for gas statistics")

C7_TtlExpiry ==
    (op.fn = "get_block_by_number" /\ op.stale)
    => /\ ~op.hit
       /\ op.pc = "done" => op.calls >= 1

C7_Refetched ==
    /\ op.fn = "get_block_by_number" /\ op.stale
    /\ op.pc = "done" /\ op.result.ok

\* The same keys with the same values, none written anew.
SameEntries(c, d) ==
    /\ DOMAIN c = DOMAIN d
    /\ \A k \in DOMAIN c : c[k].value = d[k].value /\ c[k].age <= d[k].age

\* C8: every step of get_latest_block_number leaves the cache's entries as
\* they are, it never reads a cached value, and it returns only after a
\* request.
C8_LatestNeverCached ==
    [][op'.fn = "get_latest_block_number"
       => /\ SameEntries(cache, cache')
          /\ ~op'.hit
          /\ op'.pc = "done" => op'.calls >= 1]_vars

C8_LatestDone ==
    /\ op.fn = "get_latest_block_number" /\ op.pc = "done" /\ op.result.ok
    /\ cache # <<>>

\* The field of Block or Transaction a member is decoded into, and its zero.
FieldOf(key) ==
    CASE key = "parentHash" -> "parent_hash"
      [] key = "gasUsed" -> "gas_used"
      [] key = "gasLimit" -> "gas_limit"
      [] key = "gasPrice" -> "gas_price"
      [] OTHER -> key
ZeroOf(key) ==
    IF key \in HashKeys THEN Rep(0, 2 * B256Bytes)
    ELSE IF key \in AddrKeys THEN Rep(0, 2 * AddressBytes)
    ELSE <<>>

\* The wire-format object the decoder's input was made from, its decoding,
\* and the members of the input that are not strings while every other
\* member is as on the wire.
DinWire == IF din.kind = "block" THEN WireBlock(Hex1, Hex5208) ELSE WireTx
DinWireDecoded ==
    IF din.kind = "block" THEN parse_block(JObj(DinWire)).v
    ELSE parse_transaction(JObj(DinWire), JObj(WireReceipt)).v
Decoded ==
    /\ dout # NotDecoded
    /\ din.value.t = "obj"
    /\ din.kind = "tx" => din.receipt = JObj(WireReceipt)
NonStrings(keys) ==
    LET dk == DefectKeys(din.value.f, DinWire) IN
    /\ dk # {}
    /\ dk \subseteq keys
    /\ \A k \in dk : din.value.f[k].t \in {"absent", "other"}
\* The decoding of the wire-format object with zero in the fields of keys.
Defaulted(keys) ==
    [f \in DOMAIN DinWireDecoded |->
        IF \E k \in keys : FieldOf(k) = f
        THEN ZeroOf(CHOOSE k \in keys : FieldOf(k) = f)
        ELSE DinWireDecoded[f]]

\* C9: a block or transaction object whose hash or parentHash member is
\* missing or no string decodes, with the all-zero digest in that field.
C9_HashDefaulted ==
    (Decoded /\ NonStrings({"hash", "parentHash"}))
    => dout = Ok(Defaulted(DefectKeys(din.value.f, DinWire)))

\* C10: a block or transaction object whose numeric and address members
\* (number, timestamp, gasUsed, gasLimit, difficulty, size, value, gas,
\* gasPrice, miner, from) are missing or no strings decodes, with zero
\* (the all-zero address) in those fields and every other field as decoded.
C10_NumericDefaulted ==
    (Decoded /\ NonStrings({"number", "timestamp", "gasUsed", "gasLimit", "difficulty",
                            "size", "value", "gas", "gasPrice", "miner", "from"}))
    => dout = Ok(Defaulted(DefectKeys(din.value.f, DinWire)))

C10_TwoDefaulted ==
    /\ Decoded /\ din.kind = "block"
    /\ din.value.f["gasUsed"] = JAbsent /\ din.value.f["miner"] = JOther
    /\ dout.ok /\ dout.v.gas_used = <<>> /\ dout.v.miner = Rep(0, 2 * AddressBytes)
    /\ dout.v.number = <<1>>

\* The top-level response of the operation o was no JSON object.
ShapeError(o) ==
    \/ o.fn \in {"get_block_by_number", "get_block_by_hash"} /\ o.answer.t # "obj"
    \/ o.fn = "get_transaction" /\ o.tx_result.t # "obj"

\* C11: a block fetch or a transaction fetch whose requests succeeded but
\* whose top-level response (the block, the transaction body) is no JSON
\* object returns an error and writes no cache entry.
C11_ShapeErrors ==
    [][(op.pc \in CallPcs /\ op'.pc = "done" /\ op'.retry = "ok"
        /\ ShapeError(op'))
       => (~op'.result.ok /\ SameEntries(cache, cache'))]_vars

C11_NullTransaction ==
    /\ op.fn = "get_transaction" /\ op.pc = "done" /\ op.retry = "ok"
    /\ op.tx_result = JNull /\ op.receipt = JObj(WireReceipt)
    /\ ~op.result.ok /\ cache = <<>>

\* C12: RethClient::new whose chain-id request fails returns the connection
\* error after that one request, with no cache built and no operation ever
\* run; a client, its cache and its operations exist only after one
\* successful chain-id request.
C12_ConnectFailsFast ==
    /\ (conn.pc = "failed" /\ conn.probes > 0)
       => /\ conn.probes = 1
          /\ conn.result = Err("Failed to connect to Reth node")
    /\ conn.pc # "ready" => (cache = NoCache /\ op = IdleOp)
    /\ conn.pc = "ready" => (conn.probes = 1 /\ conn.result.ok /\ cache # NoCache)

C12_ProbeFailed ==
    /\ conn.pc = "failed" /\ conn.probes = 1
    /\ conn.result = Err("Failed to connect to Reth node")
    /\ cache = NoCache

\* The block numbers from lo to hi, ascending.
Ascending(lo, hi) == [i \in 1..(hi - lo + 1) |-> lo + i - 1]

\* C13: get_gas_statistics(count) that resolved the head height H has, when
\* it returns or ends, asked for each block number of
\* [max(0, H - count), H] once, in ascending order.
C13_Window ==
    (stats.pc = "done" /\ stats.tried # <<>>)
    => stats.tried = Ascending(IF stats.latest >= stats.count
                               THEN stats.latest - stats.count ELSE 0,
                               stats.latest)

\* C14: two queries have the same cache key only if they are the same
\* operation with the same parameters; an account query with no block has
\* the key of the tag "latest".
C14_KeysDistinct ==
    (din.kind = "keys" /\ dout.ok)
    => /\ dout.v.k1 = dout.v.k2 => din.q1 = din.q2
       /\ (din.q1.fn = "get_account_balance" /\ din.q1.block = None)
          => dout.v.k1 = <<"b", "a", "l", "a", "n", "c", "e", "_">> \o din.q1.arg
                         \o <<"_", "l", "a", "t", "e", "s", "t">>

C14_TwoTags ==
    /\ din.kind = "keys" /\ dout.ok
    /\ din.q1 = [fn |-> "get_account_balance", arg |-> AddrT \o <<"_", "0", "x", "1">>,
                 block |-> None]
    /\ din.q2 = [fn |-> "get_account_balance", arg |-> AddrT, block |-> Some(1)]
    /\ dout.v.k1 # dout.v.k2

\* Both invocations have returned.
BothDone == \A p \in Tasks : conc.task[p].pc = "done"
\* Both invocations asked for the same block and found no entry for it.
BothMissed ==
    /\ conc.task[1].arg = conc.task[2].arg
    /\ \A p \in Tasks : conc.task[p].missed

\* C15: two invocations of get_block_by_number(n) that both missed the cache
\* both return, each with the block it fetched or with its error; then the
\* cache holds for n the value that was written last, and no entry if none
\* was written.
C15_LastWriteWins ==
    /\ <>BothDone
    /\ [](BothDone /\ BothMissed
          => LET key == BlockKey(conc.task[1].arg) IN
             /\ \A p \in Tasks :
                   /\ conc.task[p].result # NoResult
                   /\ conc.task[p].wrote
                      <=> conc.task[p].result = parse_block(conc.task[p].answer)
             /\ IF \E p \in Tasks : conc.task[p].wrote
                THEN key \in DOMAIN cache /\ cache[key].value = conc.last
                ELSE key \notin DOMAIN cache)

C15_BothWrote ==
    /\ BothDone /\ BothMissed
    /\ \A p \in Tasks : conc.task[p].wrote
    /\ conc.task[1].answer # conc.task[2].answer
    /\ cache[BlockKey(conc.task[1].arg)].value = conc.last
    /\ conc.last = conc.task[2].answer

\* C16: a get_transaction(h) that finds a live cache entry for h, written by
\* an earlier successful get_transaction(h), returns the transaction with
\* neither request issued.
C16_TxCacheHit ==
    (op.fn = "get_transaction" /\ op.live)
    => (op.pc = "done" /\ op.calls = 0 /\ op.result.ok)

\* C17: a get_account_balance that finds a live cache entry for its address
\* and block issues no request and returns an Account equal in every field
\* to the one the call before it returned for that address and block.
C17_AccountCacheHit ==
    [][(op'.fn = "get_account_balance" /\ op'.live)
       => /\ op'.pc = "done" /\ op'.hit /\ op'.calls = 0 /\ op'.result.ok
          /\ (op.fn = "get_account_balance" /\ op.key = op'.key /\ op.result.ok)
             => op'.result = op.result]_vars

C17_SecondCall ==
    /\ op.fn = "get_account_balance" /\ op.live /\ op.pc = "done" /\ op.calls = 0
    /\ op.arg = [address |-> AddrT, block |-> None]
    /\ op.result.ok /\ op.result.v.balance = <<5, 2, 0, 8>> /\ op.result.v.nonce = <<1>>
    /\ op.result.v.code_size = <<2>> /\ op.result.v.address = Rep(13, 2 * AddressBytes)
    /\ cache[op.key].age = TTL \div 2

\* What a successful operation o writes to the cache.
Cached(o) ==
    CASE o.fn \in {"get_block_by_number", "get_block_by_hash"} -> o.answer
      [] o.fn = "get_transaction" -> o.tx_result
      [] o.fn = "get_account_balance" -> to_value_Account(o.result.v)

\* C18: when get_block_by_number, get_block_by_hash, get_transaction or
\* get_account_balance has returned Ok after going to the network, the cache
\* holds under the operation's key the entry it has just written.
C18_SuccessIsCached ==
    (/\ op.fn \in {"get_block_by_number", "get_block_by_hash", "get_transaction",
                   "get_account_balance"}
     /\ op.pc = "done" /\ op.result.ok /\ op.calls >= 1)
    => /\ op.key \in DOMAIN cache
       /\ cache[op.key] = [value |-> Cached(op), age |-> 0]

C18_TransactionCached ==
    /\ op.fn = "get_transaction" /\ op.pc = "done" /\ op.result.ok /\ op.calls = 2
    /\ DOMAIN cache = {TxKey(HashC)}
    /\ cache[TxKey(HashC)].value = JObj(WireTx)

\* C19: an attempt of retry_rpc_call that obtains no result, whether the
\* policy then sleeps or gives up and the operation returns the error,
\* leaves every cache entry as it is.
C19_FailuresKeepCache ==
    [][(op.pc \in CallPcs /\ op'.fails > op.fails)
       => (SameEntries(cache, cache') /\ op'.retry \in {"none", "err"})]_vars

C19_GaveUpOverEntry ==
    /\ op.fn = "get_block_by_number" /\ op.retry = "err" /\ op.fails = 2
    /\ op.key \in DOMAIN cache /\ cache[op.key].value = JObj(WireBlock(Hex1, HexU64Max))
    /\ DOMAIN cache = {BlockKey(0), BlockKey(1)}

\* C20: calculate_gas_utilization(gas_used, gas_limit) is the fraction
\* gas_used * 100 / gas_limit where gas_limit > 0, and 0 where gas_limit = 0.
C20_GasUtilization ==
    (din.kind = "util" /\ dout.ok)
    => IF din.gas_limit = 0
       THEN dout.v = [num |-> 0, den |-> 1]
       ELSE /\ dout.v.den > 0
            /\ dout.v.num * din.gas_limit = din.gas_used * 100 * dout.v.den

C20_TwoThirds ==
    /\ din = [kind |-> "util", gas_used |-> 2, gas_limit |-> 3]
    /\ dout = Ok([num |-> 200, den |-> 3])

\* C21: for every string that hex_to_decimal decodes, with or without the
\* "0x" prefix, writing the value as "0x" and lower-case hex digits and
\* decoding that again gives the same value.
C21_CodecRoundTrip ==
    (din.kind = "hex" /\ dout.ok /\ dout.v.first.ok)
    => /\ dout.v.second = dout.v.first
       /\ \A i \in 3..Len(dout.v.encoded) :
             dout.v.encoded[i] \in DecChars \cup LowerHexChars

C21_UpperCaseBare ==
    /\ din = [kind |-> "hex", s |-> <<"F", "a", "0">>]
    /\ dout.ok /\ dout.v.first = Ok(<<15, 10, 0>>)
    /\ dout.v.encoded = <<"0", "x", "f", "a", "0">>
    /\ dout.v.second = Ok(<<15, 10, 0>>)

\* The string an entry of a transactions array carries as its hash (none:
\* the empty string), whether it is a 32-byte digest in hex, and its bytes.
CarriedHash(e) ==
    IF e.t = "str" THEN e.s
    ELSE IF e.t = "obj" /\ "hash" \in DOMAIN e.f /\ e.f["hash"].t = "str"
    THEN e.f["hash"].s
    ELSE <<>>
DigestBody(str) ==
    IF Len(str) = 2 * B256Bytes + 2 /\ SubSeq(str, 1, 2) = <<"0", "x">>
    THEN SubSeq(str, 3, Len(str)) ELSE str
IsDigest(str) ==
    /\ Len(DigestBody(str)) = 2 * B256Bytes
    /\ \A i \in 1..Len(DigestBody(str)) : DigestBody(str)[i] \in HexChars
DigestOf(str) == [i \in 1..(2 * B256Bytes) |-> HexVal(DigestBody(str)[i])]

\* C22: parse_block of a block whose transactions array mixes hash strings
\* and objects with a hash member gives as Block.transactions the digests
\* of the entries that carry one, each of them, in the array's order.
C22_TransactionList ==
    (din.kind = "block" /\ dout.ok /\ din.value.f["transactions"].t = "arr")
    => LET carriers == SelectSeq(din.value.f["transactions"].a,
                                 LAMBDA e : IsDigest(CarriedHash(e))) IN
       dout.v.transactions = [i \in 1..Len(carriers) |-> DigestOf(CarriedHash(carriers[i]))]

C22_MixedShapes ==
    /\ din.kind = "block" /\ dout.ok
    /\ din.value.f["transactions"] =
          JArr(<<JObj([hash |-> JStr(HashC)]), JStr(ShortHex), JStr(HashB)>>)
    /\ dout.v.transactions = <<DigestOf(HashC), DigestOf(HashB)>>

NatLeq(a, b) == ~NatLess(b, a)
RECURSIVE ExactSum(_)
ExactSum(gases) ==
    IF gases = <<>> THEN <<>> ELSE NatAdd(gases[1], ExactSum(Tail(gases)))

\* C23: the statistics get_gas_statistics(count) returns at head height H
\* have min_gas_used <= avg_gas_used <= max_gas_used, blocks_analyzed equal
\* to the number of blocks of the window that were fetched, and
\* 1 <= blocks_analyzed <= min(count, H) + 1.
C23_StatisticsBounds ==
    (stats.pc = "done" /\ stats.result.ok)
    => LET r == stats.result.v IN
       /\ NatLeq(r.min_gas_used, r.avg_gas_used)
       /\ NatLeq(r.avg_gas_used, r.max_gas_used)
       /\ r.blocks_analyzed = Len(stats.gases)
       /\ 1 <= r.blocks_analyzed
       /\ r.blocks_analyzed <= (IF stats.count <= stats.latest
                                THEN stats.count ELSE stats.latest) + 1

\* C24: when get_gas_statistics has fetched blocks of its window, it returns
\* statistics whose avg_gas_used is the quotient of the exact sum of their
\* gas-used values by their number: neither the narrowing of gas_used to
\* 64 bits nor the 64-bit running sum wraps or ends the aggregation.
C24_ExactAverage ==
    (stats.pc = "done" /\ stats.gases # <<>>)
    => /\ stats.result.ok
       /\ stats.result.v.avg_gas_used = NatDiv(ExactSum(stats.gases), Len(stats.gases))

\* The n highest block numbers ending at hi, from hi downwards.
Descending(hi, n) == [i \in 1..n |-> hi - i + 1]

\* C25: show_latest_blocks(count) that resolved the head height H asks
\* get_block_by_number for the min(count, H + 1) highest block numbers
\* ending at H, from H downwards, each once, and for no other; count - 1
\* in unsigned 64-bit arithmetic does not underflow.
C25_LatestWindow ==
    (view.pc = "done" /\ view.resolved)
    => /\ view.result # Err("panic")
       /\ view.tried = Descending(view.latest,
                                  IF view.count <= view.latest + 1
                                  THEN view.count ELSE view.latest + 1)
====
